---- MODULE Spec2Model ----
(***************************************************************************)
(* Console device-driver library (kern/console.c): the text-mode console  *)
(* memory, the logical cursor, the default colour and the CRTC cursor     *)
(* registers, with one action per driver entry point.                     *)
(***************************************************************************)
EXTENDS Integers, Sequences, FiniteSets, TLC

(* ---------------- program constants ---------------- *)
\* CONSOLE_OUT_OF_RANGE is console.c's own; the others reach console.c through
\* #include <p1kern.h> (80 x 25 cells at 0xB8000, CRTC ports 0x3D4 / 0x3D5).
CONSOLE_WIDTH == 80
CONSOLE_HEIGHT == 25
CONSOLE_MEM_BASE == 753664
CONSOLE_OUT_OF_RANGE == 2500
CRTC_IDX_REG == 980
CRTC_DATA_REG == 981
CRTC_CURSOR_LSB_IDX == 15
CRTC_CURSOR_MSB_IDX == 14
FGND_WHITE == 15
BGND_BLACK == 0
NULL == << >>

(* ---------------- bounds of the exploration ---------------- *)
MaxSteps == 3

(* ---------------- C integer conversions ---------------- *)
\* the byte stored by an assignment through (char *)
ToByte(x) == x % 256

\* the value of a char object holding byte b (char is signed on this target)
ToChar(x) == IF x % 256 >= 128 THEN (x % 256) - 256 ELSE x % 256

RECURSIVE BitAndN(_, _, _)
BitAndN(a, b, n) ==
  IF n = 0 THEN 0
  ELSE (IF a % 2 = 1 /\ b % 2 = 1 THEN 1 ELSE 0) + 2 * BitAndN(a \div 2, b \div 2, n - 1)

\* a & b on two's complement ints, for a mask b in 0..65535: the bits of a
\* above bit 15 meet zero bits of the mask
BitAnd(a, b) == BitAndN(a % 65536, b, 16)

\* x >> 8 (arithmetic shift)
Shr8(x) == x \div 256

(* ---------------- console memory ---------------- *)
\* mem maps each address the driver has stored to onto the byte stored there;
\* any other address still holds what it held at boot (fill).
CellAddr(row, col) == CONSOLE_MEM_BASE + 2 * (CONSOLE_WIDTH * row + col)

Poke(m, addr, b) ==
  IF addr \in DOMAIN m THEN [m EXCEPT ![addr] = ToByte(b)] ELSE m @@ (addr :> ToByte(b))

GridAddrs ==
  CONSOLE_MEM_BASE .. (CONSOLE_MEM_BASE + 2 * CONSOLE_WIDTH * CONSOLE_HEIGHT - 1)

InGrid(row, col) ==
  /\ 0 <= row /\ row < CONSOLE_HEIGHT
  /\ 0 <= col /\ col < CONSOLE_WIDTH

VARIABLES
  cursor_row, cursor_col,   \* int cursor_row, cursor_col
  current_color,            \* char current_color
  is_cursor_visible,        \* int is_cursor_visible
  mem,                      \* bytes stored through CONSOLE_MEM_BASE + ...
  fill,                     \* <<character, attribute>> every cell held at boot
  crtc_idx,                 \* last byte written to CRTC_IDX_REG
  crtc_reg,                 \* CRTC registers, by index
  op,                       \* the last call: name and arguments
  ret,                      \* what the last call returned
  written,                  \* addresses the last call stored to
  outlog,                   \* port writes of the last call, in order
  putbyte_calls,            \* putbyte invocations made by the last call
  steps,                    \* calls made so far
  runRow, runLen            \* start row and length of a run of ordinary bytes

vars ==
  <<cursor_row, cursor_col, current_color, is_cursor_visible, mem, fill,
    crtc_idx, crtc_reg, op, ret, written, outlog, putbyte_calls, steps,
    runRow, runLen>>

\* the byte at an address, as the hardware would return it
Peek(m, f, addr) ==
  IF addr \in DOMAIN m THEN m[addr]
  ELSE IF (addr - CONSOLE_MEM_BASE) % 2 = 0 THEN f[1] ELSE f[2]

(* ---------------- inputs ---------------- *)
NL == 10
CR == 13
BS == 8
SPACE == 32
OrdinaryInputs == {97}
CharInputs == {NL, CR, BS} \cup OrdinaryInputs
BootFills == {<<0, 0>>, <<120, 7>>}

(* ---------------- putbyte ---------------- *)
\* the part of the driver state putbyte works on
Console ==
  [row |-> cursor_row, col |-> cursor_col, mem |-> mem, color |-> current_color,
   written |-> {}, calls |-> 0]

StoreCell_white(st, row, col, ch) ==
  [st EXCEPT
     !.mem = Poke(Poke(st.mem, CellAddr(row, col), ch), CellAddr(row, col) + 1, FGND_WHITE),
     !.written = @ \cup {CellAddr(row, col), CellAddr(row, col) + 1}]

StoreCell(st, row, col, ch) ==
  [st EXCEPT
     !.mem = Poke(Poke(st.mem, CellAddr(row, col), ch), CellAddr(row, col) + 1, st.color),
     !.written = @ \cup {CellAddr(row, col), CellAddr(row, col) + 1}]

putbyte_wrap(col) == col > CONSOLE_WIDTH

putbyte_nl_keeps_col(st0, ch) ==
  LET st == [st0 EXCEPT !.calls = @ + 1] IN
  CASE ch = NL -> [st EXCEPT !.row = @ + 1]
    [] ch = CR -> [st EXCEPT !.col = 0]
    [] ch = BS ->
         LET c1 == st.col - 1
             col2 == IF c1 < 0 THEN CONSOLE_WIDTH - 1 ELSE c1
             row2 == IF c1 < 0 THEN st.row - 1 ELSE st.row
         IN  [StoreCell(st, row2, col2, SPACE) EXCEPT !.col = col2, !.row = row2]
    [] OTHER ->
         LET w == StoreCell(st, st.row, st.col, ch)
             c1 == st.col + 1
         IN  IF putbyte_wrap(c1)
             THEN [w EXCEPT !.col = 0, !.row = @ + 1]
             ELSE [w EXCEPT !.col = c1]

putbyte(st0, ch) ==
  LET st == [st0 EXCEPT !.calls = @ + 1] IN
  CASE ch = NL -> [st EXCEPT !.col = 0, !.row = @ + 1]
    [] ch = CR -> [st EXCEPT !.col = 0]
    [] ch = BS ->
         LET c1 == st.col - 1
             col2 == IF c1 < 0 THEN CONSOLE_WIDTH - 1 ELSE c1
             row2 == IF c1 < 0 THEN st.row - 1 ELSE st.row
         IN  [StoreCell(st, row2, col2, SPACE) EXCEPT !.col = col2, !.row = row2]
    [] OTHER ->
         LET w == StoreCell(st, st.row, st.col, ch)
             c1 == st.col + 1
         IN  IF putbyte_wrap(c1)
             THEN [w EXCEPT !.col = 0, !.row = @ + 1]
             ELSE [w EXCEPT !.col = c1]

Init ==
  /\ cursor_row = 0 /\ cursor_col = 0
  /\ current_color = 0
  /\ is_cursor_visible = 0
  /\ mem = << >>
  /\ fill \in BootFills
  /\ crtc_idx = 0
  /\ crtc_reg = [i \in {CRTC_CURSOR_MSB_IDX, CRTC_CURSOR_LSB_IDX} |-> 0]
  /\ op = <<"init">>
  /\ ret = 0
  /\ written = {}
  /\ outlog = << >>
  /\ putbyte_calls = 0
  /\ steps = 0
  /\ runRow = 0 /\ runLen = 0

PutByteCall(ch) ==
  /\ LET st == putbyte(Console, ch) IN
       /\ cursor_row' = st.row /\ cursor_col' = st.col
       /\ mem' = st.mem
       /\ written' = st.written
       /\ putbyte_calls' = st.calls
  /\ op' = <<"putbyte", ch>>
  /\ ret' = ch
  /\ outlog' = << >>
  /\ UNCHANGED <<current_color, is_cursor_visible, fill, crtc_idx, crtc_reg>>

(* ---------------- putbytes ---------------- *)
\* s is NULL or <<buf, beyond>>: the bytes of the caller's buffer and the byte
\* that happens to follow it in memory
ByteAt(s, i) == IF i < Len(s[1]) THEN s[1][i + 1] ELSE s[2]

RECURSIVE putbytes_loop(_, _, _, _)
putbytes_loop(st, s, i, len) ==
  IF len >= 0 THEN putbytes_loop(putbyte(st, ByteAt(s, i)), s, i + 1, len - 1) ELSE st

putbytes(st, s, len) == IF s = NULL THEN st ELSE putbytes_loop(st, s, 0, len)

BufInputs == {<<98, 99>>}
BeyondInputs == {0, 122}
LenInputs == {-1, 0, 1, 2}

PutBytesCall(s, len) ==
  /\ LET st == putbytes(Console, s, len) IN
       /\ cursor_row' = st.row /\ cursor_col' = st.col
       /\ mem' = st.mem
       /\ written' = st.written
       /\ putbyte_calls' = st.calls
  /\ op' = <<"putbytes", s, len>>
  /\ ret' = 0
  /\ outlog' = << >>
  /\ UNCHANGED <<current_color, is_cursor_visible, fill, crtc_idx, crtc_reg>>

(* ---------------- colour ---------------- *)
set_term_color_invalid(foreground, background) ==
  foreground < 0 \/ foreground > 15 \/ background < 0 \/ background > 7

set_term_color_ret(color) ==
  IF set_term_color_invalid(BitAnd(color, 15), BitAnd(color, 240)) THEN -1 ELSE 0

ColorInputs == {7, 31, 127, 128, 256}

SetTermColorCall(color) ==
  /\ ret' = set_term_color_ret(color)
  /\ current_color' = IF ret' = 0 THEN ToChar(color) ELSE current_color
  /\ op' = <<"set_term_color", color>>
  /\ written' = {} /\ outlog' = << >> /\ putbyte_calls' = 0
  /\ UNCHANGED <<cursor_row, cursor_col, is_cursor_visible, mem, fill, crtc_idx,
                 crtc_reg>>

get_term_color == current_color

GetTermColorCall ==
  /\ ret' = get_term_color
  /\ op' = <<"get_term_color">>
  /\ written' = {} /\ outlog' = << >> /\ putbyte_calls' = 0
  /\ UNCHANGED <<cursor_row, cursor_col, current_color, is_cursor_visible, mem, fill,
                 crtc_idx, crtc_reg>>

(* ---------------- cursor ---------------- *)
set_cursor_invalid_row_25(row, col) == row < 0 \/ row > 25 \/ col < 0 \/ col > 79

set_cursor_invalid_last_row(row, col) == row < 0 \/ row >= 24 \/ col < 0 \/ col > 79

set_cursor_invalid(row, col) == row < 0 \/ row > 24 \/ col < 0 \/ col > 79

CursorInputs ==
  {<<24, 0>>, <<0, 79>>, <<24, 79>>, <<-1, 0>>, <<25, 0>>, <<0, -1>>, <<0, 80>>}

SetCursorCall_shows(row, col) ==
  /\ IF set_cursor_invalid(row, col)
     THEN ret' = -1 /\ UNCHANGED <<cursor_row, cursor_col>>
     ELSE ret' = 0 /\ cursor_row' = row /\ cursor_col' = col
  /\ is_cursor_visible' = 1
  /\ op' = <<"set_cursor", row, col>>
  /\ written' = {} /\ outlog' = << >> /\ putbyte_calls' = 0
  /\ UNCHANGED <<current_color, mem, fill, crtc_idx, crtc_reg>>

SetCursorCall(row, col) ==
  /\ IF set_cursor_invalid(row, col)
     THEN ret' = -1 /\ UNCHANGED <<cursor_row, cursor_col>>
     ELSE ret' = 0 /\ cursor_row' = row /\ cursor_col' = col
  /\ op' = <<"set_cursor", row, col>>
  /\ written' = {} /\ outlog' = << >> /\ putbyte_calls' = 0
  /\ UNCHANGED <<current_color, is_cursor_visible, mem, fill, crtc_idx, crtc_reg>>

get_cursor == <<cursor_row, cursor_col>>

GetCursorCall ==
  /\ ret' = get_cursor
  /\ op' = <<"get_cursor">>
  /\ written' = {} /\ outlog' = << >> /\ putbyte_calls' = 0
  /\ UNCHANGED <<cursor_row, cursor_col, current_color, is_cursor_visible, mem, fill,
                 crtc_idx, crtc_reg>>

(* ---------------- CRTC cursor registers ---------------- *)
\* outb(port, val) on the device [idx, reg, log]
outb(hw, port, val) ==
  LET b == val % 256 IN
  [idx |-> IF port = CRTC_IDX_REG THEN b ELSE hw.idx,
   reg |-> IF port = CRTC_DATA_REG /\ hw.idx \in DOMAIN hw.reg
           THEN [hw.reg EXCEPT ![hw.idx] = b] ELSE hw.reg,
   log |-> Append(hw.log, <<port, b>>)]

Crtc == [idx |-> crtc_idx, reg |-> crtc_reg, log |-> << >>]

write_cursor_pos_low_first(hw, cursor_pos) ==
  outb(outb(outb(outb(hw, CRTC_IDX_REG, CRTC_CURSOR_LSB_IDX),
                 CRTC_DATA_REG, cursor_pos),
            CRTC_IDX_REG, CRTC_CURSOR_MSB_IDX),
       CRTC_DATA_REG, Shr8(cursor_pos))

\* the four port writes shared by hide_cursor and show_cursor
write_cursor_pos(hw, cursor_pos) ==
  outb(outb(outb(outb(hw, CRTC_IDX_REG, CRTC_CURSOR_MSB_IDX),
                 CRTC_DATA_REG, Shr8(cursor_pos)),
            CRTC_IDX_REG, CRTC_CURSOR_LSB_IDX),
       CRTC_DATA_REG, cursor_pos)

\* the linear position the hardware cursor sits at
HwCursor == crtc_reg[CRTC_CURSOR_MSB_IDX] * 256 + crtc_reg[CRTC_CURSOR_LSB_IDX]

hide_cursor_pos_low_byte == CONSOLE_OUT_OF_RANGE % 256

hide_cursor_pos == CONSOLE_OUT_OF_RANGE

HideCursorCall ==
  /\ LET hw == write_cursor_pos(Crtc, hide_cursor_pos) IN
       crtc_idx' = hw.idx /\ crtc_reg' = hw.reg /\ outlog' = hw.log
  /\ is_cursor_visible' = 0
  /\ op' = <<"hide_cursor">>
  /\ ret' = 0
  /\ written' = {} /\ putbyte_calls' = 0
  /\ UNCHANGED <<cursor_row, cursor_col, current_color, mem, fill>>

show_cursor_pos == cursor_row * CONSOLE_WIDTH + cursor_col

ShowCursorCall ==
  /\ LET hw == write_cursor_pos(Crtc, show_cursor_pos) IN
       crtc_idx' = hw.idx /\ crtc_reg' = hw.reg /\ outlog' = hw.log
  /\ is_cursor_visible' = 1
  /\ op' = <<"show_cursor">>
  /\ ret' = 0
  /\ written' = {} /\ putbyte_calls' = 0
  /\ UNCHANGED <<cursor_row, cursor_col, current_color, mem, fill>>

(* ---------------- draw_char, get_char, clear_console ---------------- *)
draw_char_attr_first(m, row, col, ch, color) ==
  Poke(Poke(m, CellAddr(row, col), color), CellAddr(row, col) + 1, ch)

draw_char(m, row, col, ch, color) ==
  Poke(Poke(m, CellAddr(row, col), ch), CellAddr(row, col) + 1, color)

draw_char_written(row, col) == {CellAddr(row, col), CellAddr(row, col) + 1}

DrawInputs == {<<24, 79>>, <<-1, 0>>, <<25, 0>>, <<0, 80>>}
DrawValues == <<100, 46>>

DrawCharCall(row, col, ch, color) ==
  /\ mem' = draw_char(mem, row, col, ch, color)
  /\ written' = draw_char_written(row, col)
  /\ op' = <<"draw_char", row, col, ch, color>>
  /\ ret' = 0
  /\ outlog' = << >> /\ putbyte_calls' = 0
  /\ UNCHANGED <<cursor_row, cursor_col, current_color, is_cursor_visible, fill,
                 crtc_idx, crtc_reg>>

get_char(row, col) == ToChar(Peek(mem, fill, CellAddr(row, col)))

GetCharInputs == {<<0, 0>>, <<24, 79>>}

GetCharCall(row, col) ==
  /\ ret' = get_char(row, col)
  /\ op' = <<"get_char", row, col>>
  /\ written' = {} /\ outlog' = << >> /\ putbyte_calls' = 0
  /\ UNCHANGED <<cursor_row, cursor_col, current_color, is_cursor_visible, mem, fill,
                 crtc_idx, crtc_reg>>

\* A store overrides what its address held, so stores S1 followed by stores S2
\* leave memory S2 @@ S1 @@ m.
\* the stores of the inner loop of clear_console, from column j of row i
RECURSIVE clear_row(_, _)
clear_row(i, j) ==
  IF j < CONSOLE_WIDTH
  THEN clear_row(i, j + 1) @@ draw_char(<< >>, i, j, SPACE, FGND_WHITE + BGND_BLACK)
  ELSE << >>

RECURSIVE clear_rows_short(_)
clear_rows_short(i) ==
  IF i < CONSOLE_HEIGHT - 1 THEN clear_rows_short(i + 1) @@ clear_row(i, 0) ELSE << >>

\* the stores of the outer loop of clear_console, from row i
RECURSIVE clear_rows(_)
clear_rows(i) ==
  IF i < CONSOLE_HEIGHT THEN clear_rows(i + 1) @@ clear_row(i, 0) ELSE << >>

\* every store the two loops make, none of which depends on what memory held
ClearStores == clear_rows(0)

ClearConsoleCall ==
  /\ mem' = ClearStores @@ mem
  /\ written' = DOMAIN ClearStores
  /\ cursor_row' = 0 /\ cursor_col' = 0
  /\ op' = <<"clear_console">>
  /\ ret' = 0
  /\ outlog' = << >> /\ putbyte_calls' = 0
  /\ UNCHANGED <<current_color, is_cursor_visible, fill, crtc_idx, crtc_reg>>

(* ---------------- the caller ---------------- *)
\* one call of the driver, out of at most MaxSteps
Step(call) ==
  /\ steps < MaxSteps
  /\ call
  /\ steps' = steps + 1
  /\ UNCHANGED <<runRow, runLen>>

PutByte == \E ch \in CharInputs : Step(PutByteCall(ch))

PutBytes ==
  \E b \in BufInputs, len \in LenInputs :
    \E z \in (IF len >= Len(b) THEN BeyondInputs ELSE {0}) :
      Step(PutBytesCall(<<b, z>>, len))

PutBytesNull == Step(PutBytesCall(NULL, 1))

SetTermColor == \E c \in ColorInputs : Step(SetTermColorCall(c))

GetTermColor == Step(GetTermColorCall)

SetCursor == \E p \in CursorInputs : Step(SetCursorCall(p[1], p[2]))

GetCursor == Step(GetCursorCall)

HideCursor == Step(HideCursorCall)

ShowCursor == Step(ShowCursorCall)

DrawChar == \E p \in DrawInputs : Step(DrawCharCall(p[1], p[2], DrawValues[1], DrawValues[2]))

GetChar == \E p \in GetCharInputs : Step(GetCharCall(p[1], p[2]))

ClearConsole == Step(ClearConsoleCall)

Next ==
  \/ PutByte
  \/ PutBytes
  \/ PutBytesNull
  \/ SetTermColor
  \/ GetTermColor
  \/ SetCursor
  \/ GetCursor
  \/ HideCursor
  \/ ShowCursor
  \/ DrawChar
  \/ GetChar
  \/ ClearConsole

Spec == Init /\ [][Next]_vars

(* ---------------- a run of ordinary bytes from column 0 ---------------- *)
\* set_cursor(row, 0) as the first call, then up to CONSOLE_WIDTH calls of
\* putbyte with an ordinary byte
RunSetCursor ==
  \E row \in 0 .. (CONSOLE_HEIGHT - 1) :
    /\ op[1] = "init"
    /\ SetCursorCall(row, 0)
    /\ runRow' = row /\ runLen' = 0
    /\ UNCHANGED steps

RunPutByte ==
  /\ op[1] # "init"
  /\ runLen < CONSOLE_WIDTH
  /\ \E ch \in OrdinaryInputs : PutByteCall(ch)
  /\ runLen' = runLen + 1
  /\ UNCHANGED <<runRow, steps>>

RunNext == RunSetCursor \/ RunPutByte

SpecRun == Init /\ [][RunNext]_vars

(* ---------------- properties ---------------- *)
\* the <<character, attribute>> bytes of cell (row, col) in memory m
Cell(m, row, col) ==
  <<Peek(m, fill, CellAddr(row, col)), Peek(m, fill, CellAddr(row, col) + 1)>>

Rows == 0 .. (CONSOLE_HEIGHT - 1)
Cols == 0 .. (CONSOLE_WIDTH - 1)
RowAddrs(row) == CellAddr(row, 0) .. (CellAddr(row, CONSOLE_WIDTH - 1) + 1)
IsOrdinary(ch) == ch \notin {NL, CR, BS}

\* C1: in every reachable state the logical cursor lies inside the grid:
\* 0 <= cursor_row < CONSOLE_HEIGHT and 0 <= cursor_col < CONSOLE_WIDTH.
C1_CursorInGrid == InGrid(cursor_row, cursor_col)

\* C2: from (row, 0), CONSOLE_WIDTH calls of putbyte with ordinary bytes leave
\* the cursor at (row + 1, 0), having stored to exactly the cells of that row.
C2_RowFillWraps ==
  runLen = CONSOLE_WIDTH =>
    /\ cursor_row = runRow + 1
    /\ cursor_col = 0
    /\ DOMAIN mem = RowAddrs(runRow)

\* C3: a putbyte that would take the cursor row to CONSOLE_HEIGHT (newline, or
\* wrap, on the last row) scrolls: the cursor row ends at CONSOLE_HEIGHT - 1
\* and, for a newline, every row but the last holds what the row below held
\* and the last row is spaces in the current colour.
C3_ScrollAtLastRow ==
  [][ ( /\ op'[1] = "putbyte"
        /\ cursor_row = CONSOLE_HEIGHT - 1
        /\ cursor_col \in Cols
        /\ \/ op'[2] = NL
           \/ IsOrdinary(op'[2]) /\ cursor_col = CONSOLE_WIDTH - 1 )
      => /\ cursor_row' = CONSOLE_HEIGHT - 1
         /\ op'[2] = NL =>
              /\ \A i \in 0 .. (CONSOLE_HEIGHT - 2), j \in Cols :
                   Cell(mem', i, j) = Cell(mem, i + 1, j)
              /\ \A j \in Cols :
                   Cell(mem', CONSOLE_HEIGHT - 1, j) = <<SPACE, ToByte(current_color)>>
    ]_vars

\* n calls of putbyte on bytes i .. n-1 of s
RECURSIVE putbyte_seq(_, _, _, _)
putbyte_seq(st, s, i, n) ==
  IF i < n THEN putbyte_seq(putbyte(st, ByteAt(s, i)), s, i + 1, n) ELSE st

\* C4: putbytes(s, n) calls putbyte exactly n times, on the first n bytes of
\* s, and leaves the cursor and memory n calls of putbyte leave; with s null
\* or n <= 0 it calls putbyte zero times and changes nothing.
C4_PutBytesExactCount ==
  [][ op'[1] = "putbytes" =>
        LET s == op'[2]
            n == op'[3]
            expected == IF s # NULL /\ n > 0 THEN putbyte_seq(Console, s, 0, n) ELSE Console
        IN  /\ putbyte_calls' = expected.calls
            /\ cursor_row' = expected.row
            /\ cursor_col' = expected.col
            /\ mem' = expected.mem
    ]_vars

\* the attribute packing foreground fg and background bg
PackColor(fg, bg) == fg + 16 * bg
ValidColors == {PackColor(fg, bg) : fg \in 0 .. 15, bg \in 0 .. 7}

\* C5: set_term_color of the attribute packing a foreground in 0..15 and a
\* background in 0..7 returns 0 and get_term_color then gives that attribute.
C5_ValidColorAccepted ==
  (op[1] = "set_term_color" /\ op[2] \in ValidColors) =>
    (ret = 0 /\ get_term_color = op[2])

\* C6: set_term_color of a colour code that packs no foreground in 0..15
\* with a background in 0..7 returns a negative value and leaves
\* current_color as it was.
C6_InvalidColorRejected ==
  [][ (op'[1] = "set_term_color" /\ op'[2] \notin ValidColors) =>
        (ret' < 0 /\ current_color' = current_color)
    ]_vars

\* C7: while the cursor is visible and inside the grid, after putbyte,
\* putbytes, set_cursor, clear_console or show_cursor the CRTC cursor
\* registers hold cursor_row * CONSOLE_WIDTH + cursor_col.
C7_HwCursorMirrors ==
  ( /\ is_cursor_visible = 1
    /\ InGrid(cursor_row, cursor_col)
    /\ op[1] \in {"putbyte", "putbytes", "set_cursor", "clear_console", "show_cursor"} )
  => HwCursor = cursor_row * CONSOLE_WIDTH + cursor_col

\* C8: backspace at (r, 0) moves the cursor to (r - 1, CONSOLE_WIDTH - 1) and
\* stores a space in the current colour there when r > 0; at r = 0 the cursor
\* stays at the origin and nothing outside the grid is stored to.
C8_BackspaceAtColumnZero ==
  [][ ( /\ op'[1] = "putbyte" /\ op'[2] = BS
        /\ cursor_col = 0 /\ cursor_row \in Rows )
      => IF cursor_row > 0
         THEN /\ cursor_row' = cursor_row - 1
              /\ cursor_col' = CONSOLE_WIDTH - 1
              /\ Cell(mem', cursor_row - 1, CONSOLE_WIDTH - 1)
                   = <<SPACE, ToByte(current_color)>>
         ELSE /\ cursor_row' = 0 /\ cursor_col' = 0
              /\ written' \subseteq GridAddrs
    ]_vars

\* C9: draw_char with a row outside 0..CONSOLE_HEIGHT-1 or a column outside
\* 0..CONSOLE_WIDTH-1 stores nothing, inside the grid or outside it.
C9_DrawCharOutOfRange ==
  [][ (op'[1] = "draw_char" /\ ~InGrid(op'[2], op'[3])) =>
        (written' = {} /\ mem' = mem)
    ]_vars

\* C10: set_cursor(row, col) with (row, col) inside the grid returns 0, and a
\* get_cursor called right after it gives exactly (row, col).
C10_SetThenGetCursor ==
  [][ /\ (op'[1] = "set_cursor" /\ InGrid(op'[2], op'[3])) => ret' = 0
      /\ (op[1] = "set_cursor" /\ InGrid(op[2], op[3]) /\ op'[1] = "get_cursor")
           => ret' = <<op[2], op[3]>>
    ]_vars

\* get_cursor has just returned the last cell of the grid, which only a
\* set_cursor(24, 79) as the call before it can have made the cursor
C10_Witness ==
  /\ op[1] = "get_cursor"
  /\ steps = 2
  /\ ret = <<CONSOLE_HEIGHT - 1, CONSOLE_WIDTH - 1>>

\* C11: set_cursor(row, col) with (row, col) outside the grid returns a
\* negative value and leaves cursor_row and cursor_col as they were.
C11_SetCursorOutOfGrid ==
  [][ (op'[1] = "set_cursor" /\ ~InGrid(op'[2], op'[3])) =>
        (ret' < 0 /\ cursor_row' = cursor_row /\ cursor_col' = cursor_col)
    ]_vars

\* a rejected set_cursor, made with the cursor already moved to the last row
C11_Witness ==
  /\ op[1] = "set_cursor"
  /\ ~InGrid(op[2], op[3])
  /\ ret = -1
  /\ cursor_row = CONSOLE_HEIGHT - 1

\* C12: show_cursor called right after hide_cursor leaves the CRTC cursor
\* registers, high byte and low byte put together, holding
\* cursor_row * CONSOLE_WIDTH + cursor_col.
C12_HideThenShow ==
  [][ (op[1] = "hide_cursor" /\ op'[1] = "show_cursor") =>
        HwCursor' = cursor_row' * CONSOLE_WIDTH + cursor_col'
    ]_vars

\* the grid with every cell a space in the attribute FGND_WHITE | BGND_BLACK
BlankGrid ==
  [a \in GridAddrs |->
     IF (a - CONSOLE_MEM_BASE) % 2 = 0 THEN SPACE ELSE FGND_WHITE + BGND_BLACK]

\* the bytes memory m holds outside the grid
OutsideGrid(m) == [a \in DOMAIN m \ GridAddrs |-> m[a]]

\* C13: clear_console leaves every cell of the grid a space in the attribute
\* FGND_WHITE | BGND_BLACK and the cursor at (0, 0), and changes neither
\* is_cursor_visible nor current_color.
C13_ClearConsole ==
  [][ op'[1] = "clear_console" =>
        /\ mem' = BlankGrid @@ OutsideGrid(mem')
        /\ cursor_row' = 0 /\ cursor_col' = 0
        /\ is_cursor_visible' = is_cursor_visible
        /\ current_color' = current_color
    ]_vars

\* clear_console as the third call, with the cursor shown and a colour other
\* than the initial one set before it
C13_Witness ==
  /\ op[1] = "clear_console"
  /\ is_cursor_visible = 1
  /\ current_color # 0
  /\ Cell(mem, CONSOLE_HEIGHT - 1, CONSOLE_WIDTH - 1) = <<SPACE, FGND_WHITE + BGND_BLACK>>

CursorPortWrites(pos) ==
  << <<CRTC_IDX_REG, CRTC_CURSOR_MSB_IDX>>, <<CRTC_DATA_REG, (pos \div 256) % 256>>,
     <<CRTC_IDX_REG, CRTC_CURSOR_LSB_IDX>>, <<CRTC_DATA_REG, pos % 256>> >>

\* C15: show_cursor and hide_cursor each make exactly four port writes, in
\* this order: the high-byte index to the index port, the high byte of the
\* position to the data port, the low-byte index to the index port, the low
\* byte to the data port.
C15_PortWriteOrder ==
  /\ op[1] = "show_cursor" =>
       outlog = CursorPortWrites(cursor_row * CONSOLE_WIDTH + cursor_col)
  /\ op[1] = "hide_cursor" => outlog = CursorPortWrites(CONSOLE_OUT_OF_RANGE)

\* show_cursor with the cursor on the last row, so that the high byte differs
\* from the low byte
C15_Witness ==
  /\ op[1] = "show_cursor"
  /\ cursor_row = CONSOLE_HEIGHT - 1 /\ cursor_col = CONSOLE_WIDTH - 1
  /\ Len(outlog) = 4
  /\ outlog[2][2] # outlog[4][2]

\* C16: hide_cursor and show_cursor never change cursor_row or cursor_col,
\* and set_cursor, putbyte, putbytes and clear_console never change
\* is_cursor_visible.
C16_VisibilityIndependent ==
  [][ /\ op'[1] \in {"hide_cursor", "show_cursor"} =>
           (cursor_row' = cursor_row /\ cursor_col' = cursor_col)
      /\ op'[1] \in {"set_cursor", "putbyte", "putbytes", "clear_console"} =>
           is_cursor_visible' = is_cursor_visible
    ]_vars

\* an accepted set_cursor made while the cursor is shown
C16_Witness ==
  /\ op[1] = "set_cursor"
  /\ ret = 0
  /\ is_cursor_visible = 1
  /\ cursor_row = CONSOLE_HEIGHT - 1

\* the cursor is not visible and the cursor registers point outside the grid
HiddenOffGrid ==
  /\ is_cursor_visible = 0
  /\ HwCursor >= CONSOLE_WIDTH * CONSOLE_HEIGHT

\* C17: after hide_cursor the cursor registers hold a position outside the
\* grid and the cursor is not visible, and putbyte, putbytes, set_cursor and
\* clear_console keep both so.
C17_HiddenStaysHidden ==
  [][ /\ op'[1] = "hide_cursor" => HiddenOffGrid'
      /\ (HiddenOffGrid /\ op'[1] \in {"putbyte", "putbytes", "set_cursor", "clear_console"})
           => HiddenOffGrid'
    ]_vars

\* an accepted set_cursor made after hide_cursor, the cursor still off the grid
C17_Witness ==
  /\ op[1] = "set_cursor"
  /\ ret = 0
  /\ HiddenOffGrid

\* C18: putbyte of an ordinary byte at an in-grid cursor stores the byte and
\* current_color in the cell under the cursor, changes no other byte of
\* memory and leaves current_color as it was.
C18_OrdinaryByte ==
  [][ ( /\ op'[1] = "putbyte" /\ IsOrdinary(op'[2])
        /\ InGrid(cursor_row, cursor_col) )
      => /\ Cell(mem', cursor_row, cursor_col) = <<ToByte(op'[2]), ToByte(current_color)>>
         /\ written' = {CellAddr(cursor_row, cursor_col), CellAddr(cursor_row, cursor_col) + 1}
         /\ mem' = (CellAddr(cursor_row, cursor_col) :> ToByte(op'[2])
                      @@ (CellAddr(cursor_row, cursor_col) + 1) :> ToByte(current_color)) @@ mem
         /\ current_color' = current_color
    ]_vars

\* an ordinary byte stored at (0, 0) under a colour other than the initial one
C18_Witness ==
  /\ op[1] = "putbyte" /\ IsOrdinary(op[2])
  /\ current_color # 0
  /\ Cell(mem, 0, 0) = <<ToByte(op[2]), ToByte(current_color)>>

\* the cells of the grid
GridCells == Rows \X Cols

\* distinct cells have distinct two-byte slots, all of them inside the grid
NoAliasing ==
  /\ Cardinality({CellAddr(c[1], c[2]) : c \in GridCells}) = CONSOLE_WIDTH * CONSOLE_HEIGHT
  /\ \A c \in GridCells :
       /\ CellAddr(c[1], c[2]) \in GridAddrs
       /\ (CellAddr(c[1], c[2]) - CONSOLE_MEM_BASE) % 2 = 0

\* the address at offset 2 * (CONSOLE_WIDTH * row + col) of the console memory
CellOffsetAddr(row, col) == CONSOLE_MEM_BASE + 2 * (CONSOLE_WIDTH * row + col)

\* C19: draw_char(row, col, ch, color) at an in-grid cell changes the two
\* bytes at offset 2 * (CONSOLE_WIDTH * row + col) and no other byte, a
\* get_char(row, col) called right after it returns the char ch converts to,
\* and no two cells of the grid share an offset.
C19_DrawThenGet ==
  [][ /\ (op'[1] = "draw_char" /\ InGrid(op'[2], op'[3])) =>
           /\ written' = {CellOffsetAddr(op'[2], op'[3]), CellOffsetAddr(op'[2], op'[3]) + 1}
           /\ mem' = (CellOffsetAddr(op'[2], op'[3]) :> ToByte(op'[4])
                        @@ (CellOffsetAddr(op'[2], op'[3]) + 1) :> ToByte(op'[5])) @@ mem
           /\ NoAliasing
      /\ ( /\ op[1] = "draw_char" /\ InGrid(op[2], op[3])
           /\ op'[1] = "get_char" /\ op'[2] = op[2] /\ op'[3] = op[3] )
           => ret' = ToChar(op[4])
    ]_vars

\* get_char of the last cell has just returned the character that only a
\* draw_char can have stored there
C19_Witness ==
  /\ op = <<"get_char", CONSOLE_HEIGHT - 1, CONSOLE_WIDTH - 1>>
  /\ steps = 2
  /\ ret = DrawValues[1]

\* C20: whenever set_term_color(c) returns 0, get_term_color then gives
\* exactly c.
C20_AcceptedColorKept ==
  (op[1] = "set_term_color" /\ ret = 0) => get_term_color = op[2]
====
